---- MODULE Spec2Model ----
(***************************************************************************)
(* Route assignment and logistics orchestration of the food-chain backend. *)
(*                                                                         *)
(* The state is the content of the tables agents, orders, routes,          *)
(* route_orders and payments, plus the position of every request handler   *)
(* that is in flight.  A handler is cut at the awaits that separate a read *)
(* whose result is used later from the write that uses it.  PostgreSQL runs*)
(* transactions at READ COMMITTED (plain BEGIN), so a SELECT takes no lock *)
(* and another transaction may commit between a SELECT and the UPDATEs     *)
(* that follow it.  The writes of one transaction become visible together  *)
(* at COMMIT and are one step.                                             *)
(***************************************************************************)
EXTENDS Integers, Sequences, FiniteSets, TLC

\* ------------------------------------------------------------------ bounds
NumAgents == 2
NumOrders == 2
NumProcs == 2
MaxRoutes == 2
MaxTime == 1
MaxPerRoute == 2
GridMetres == 300
\* the build loop on its own: pool size, agents and orders per route
BuildOrders == 5
BuildAgents == 3
BuildMaxPer == 3
\* the sequencer on its own: distinct orders, list length, start coordinates
SeqOrders == 3
SeqLen == 4
SeqSpan == 5

\* ------------------------------------------------------- program constants
PickupSpacingMinutes == 30
DeliveryOffsetMinutes == 20
MinutesPerKm == 2
MetresPerKm == 1000
MsPerMinute == 60 * 1000

Agents == 1..NumAgents
Orders == 1..NumOrders
Procs == 1..NumProcs
RouteIds == 1..MaxRoutes
NULL == -1
None == 0

RouteStatuses == {"planned", "active", "completed", "cancelled"}

VARIABLES
  routes,    \* table routes: a sequence, the route id is the index
  legs,      \* table route_orders: a set of rows
  avail,     \* agents.is_available
  loc,       \* agents.current_location
  ostatus,   \* orders.status
  pickups,   \* agents.total_pickups (earnings_today grows with it)
  payments,  \* table payments: the number of rows per order
  now,       \* the clock read by new Date() and CURRENT_TIMESTAMP
  req,       \* per handler in flight: its position and what it has read
  last       \* the response of the request that finished last

vars == <<routes, legs, avail, loc, ostatus, pickups, payments, now, req, last>>

Idle == [pc |-> "idle"]

\* ------------------------------------------------------------ fixed data
\* agents.rating, distinct so that ORDER BY rating DESC is a total order
Rating(a) == 50 - a

\* orders.pickup_location and orders.delivery_location, points of a line
PickupAt(o) == IF o % 2 = 1 THEN 3 ELSE 1
DeliveryAt(o) == IF o % 2 = 1 THEN 4 ELSE 2

\* ---------------------------------------------------------------- helpers
Abs(x) == IF x < 0 THEN -x ELSE x
Min(a, b) == IF a < b THEN a ELSE b
CeilDiv(a, b) == (a + b - 1) \div b

RECURSIVE Ascending(_)
Ascending(S) ==
  IF S = {} THEN <<>>
  ELSE LET m == CHOOSE x \in S : \A y \in S : x <= y
       IN <<m>> \o Ascending(S \ {m})

\* fault variant of ByRatingDesc: ORDER BY rating ASC
RECURSIVE ByRatingAsc(_)
ByRatingAsc(S) ==
  IF S = {} THEN <<>>
  ELSE LET m == CHOOSE x \in S : \A y \in S : Rating(x) <= Rating(y)
       IN <<m>> \o ByRatingAsc(S \ {m})

\* ORDER BY a.rating DESC
RECURSIVE ByRatingDesc(_)
ByRatingDesc(S) ==
  IF S = {} THEN <<>>
  ELSE LET m == CHOOSE x \in S : \A y \in S : Rating(x) >= Rating(y)
       IN <<m>> \o ByRatingDesc(S \ {m})

\* fault variant of RemoveAt: splice(i, 2)
RemoveTwoAt(s, i) == SubSeq(s, 1, i - 1) \o SubSeq(s, i + 2, Len(s))

\* remainingOrders.splice(i, 1)
RemoveAt(s, i) == SubSeq(s, 1, i - 1) \o SubSeq(s, i + 1, Len(s))

\* geolib.getDistance in metres, on the line: GridMetres per unit
getDistance(a, b) == GridMetres * Abs(a - b)

\* ------------------------------------------------------- route sequencing
\* fault variant of NearestIndex: distance <= nearestDistance, the last of
\* the nearest orders wins
NearestIndexLast(remaining, current) ==
  CHOOSE i \in 1..Len(remaining) :
    \A j \in 1..Len(remaining) :
      LET di == getDistance(current, PickupAt(remaining[i]))
          dj == getDistance(current, PickupAt(remaining[j]))
      IN /\ di <= dj
         /\ (j > i => dj > di)

\* the forEach scan: the first index of the smallest distance
NearestIndex(remaining, current) ==
  CHOOSE i \in 1..Len(remaining) :
    \A j \in 1..Len(remaining) :
      LET di == getDistance(current, PickupAt(remaining[i]))
          dj == getDistance(current, PickupAt(remaining[j]))
      IN /\ di <= dj
         /\ (j < i => dj > di)

RECURSIVE NearestNeighbour(_, _)
NearestNeighbour(remaining, current) ==
  IF remaining = <<>> THEN <<>>
  ELSE LET i == NearestIndex(remaining, current)
           nearestOrder == remaining[i]
       IN <<nearestOrder>> \o
          NearestNeighbour(RemoveAt(remaining, i), DeliveryAt(nearestOrder))

optimizeRoute(orders, startLocation) ==
  IF Len(orders) <= 1 THEN orders ELSE NearestNeighbour(orders, startLocation)

\* metres travelled for the i-th order of an optimized route
OrderMetres(optimizedOrders, startLocation, i) ==
  LET order == optimizedOrders[i]
      prevLocation == IF i = 1 THEN startLocation
                      ELSE DeliveryAt(optimizedOrders[i - 1])
      pickupDistance == getDistance(prevLocation, PickupAt(order))
      deliveryDistance == getDistance(PickupAt(order), DeliveryAt(order))
  IN pickupDistance + deliveryDistance

\* total_distance is kept in metres (the code's km value times 1000)
RECURSIVE DistanceFrom(_, _, _)
DistanceFrom(optimizedOrders, startLocation, i) ==
  IF i > Len(optimizedOrders) THEN 0
  ELSE OrderMetres(optimizedOrders, startLocation, i)
       + DistanceFrom(optimizedOrders, startLocation, i + 1)

TotalDistance(optimizedOrders, startLocation) ==
  DistanceFrom(optimizedOrders, startLocation, 1)

RECURSIVE DurationFrom(_, _, _)
DurationFrom(optimizedOrders, startLocation, i) ==
  IF i > Len(optimizedOrders) THEN 0
  ELSE CeilDiv(OrderMetres(optimizedOrders, startLocation, i) * MinutesPerKm,
               MetresPerKm)
       + DurationFrom(optimizedOrders, startLocation, i + 1)

\* fault variant of EstimatedDuration: rounded up once, on the route total
EstimatedDurationOnTotal(optimizedOrders, startLocation) ==
  CeilDiv(TotalDistance(optimizedOrders, startLocation) * MinutesPerKm, MetresPerKm)

EstimatedDuration(optimizedOrders, startLocation) ==
  DurationFrom(optimizedOrders, startLocation, 1)

\* fault variant of BuildRoutes: the next slice starts at the last order of
\* the slice before
RECURSIVE BuildRoutesOverlap(_, _, _, _, _)
BuildRoutesOverlap(agentList, orders, orderIndex, maxPer, location) ==
  IF agentList = <<>> \/ orderIndex >= Len(orders) THEN <<>>
  ELSE LET agent == Head(agentList)
           routeOrders == SubSeq(orders, Min(orderIndex + 1, Len(orders)),
                                 Min(orderIndex + maxPer, Len(orders)))
           optimizedOrders == optimizeRoute(routeOrders, location[agent])
       IN <<[agent |-> agent,
             orders |-> optimizedOrders,
             totalDistance |-> TotalDistance(optimizedOrders, location[agent]),
             estimatedDuration |-> EstimatedDuration(optimizedOrders, location[agent])]>>
          \o BuildRoutesOverlap(Tail(agentList), orders,
                                orderIndex + Len(routeOrders) - 1, maxPer, location)

\* the build loop: one plan per available agent while orders remain
RECURSIVE BuildRoutes(_, _, _, _, _)
BuildRoutes(agentList, orders, orderIndex, maxPer, location) ==
  IF agentList = <<>> \/ orderIndex >= Len(orders) THEN <<>>
  ELSE LET agent == Head(agentList)
           routeOrders == SubSeq(orders, orderIndex + 1,
                                 Min(orderIndex + maxPer, Len(orders)))
           startLocation == location[agent]
           optimizedOrders == optimizeRoute(routeOrders, startLocation)
       IN <<[agent |-> agent,
             orders |-> optimizedOrders,
             totalDistance |-> TotalDistance(optimizedOrders, startLocation),
             estimatedDuration |-> EstimatedDuration(optimizedOrders, startLocation)]>>
          \o BuildRoutes(Tail(agentList), orders, orderIndex + Len(routeOrders),
                         maxPer, location)

\* --------------------------------------------------------------- queries
RouteExists(r) == r \in 1..Len(routes)

\* fault variant of OrdersToRoute: the join sees only the legs of planned
\* and active routes
OrdersToRouteOpenOnly ==
  Ascending({o \in Orders :
               /\ ostatus[o] = "confirmed"
               /\ ~\E l \in legs :
                     /\ l.order = o
                     /\ routes[l.route].status \in {"planned", "active"}})

\* confirmed orders with no row in route_orders, oldest first
OrdersToRoute ==
  Ascending({o \in Orders :
               /\ ostatus[o] = "confirmed"
               /\ ~\E l \in legs : l.order = o})

AvailableAgents(filter) ==
  ByRatingDesc({a \in Agents : avail[a] /\ (filter = None \/ a = filter)})

IncompleteOrders(r) ==
  {l \in legs : l.route = r /\ ostatus[l.order] \notin {"delivered", "cancelled"}}

\* ------------------------------------------------------------------ Init
Init ==
  /\ routes = <<>>
  /\ legs = {}
  /\ avail = [a \in Agents |-> TRUE]
  /\ loc = [a \in Agents |-> 0]
  /\ ostatus = [o \in Orders |-> "confirmed"]
  /\ pickups = [a \in Agents |-> 0]
  /\ payments = [o \in Orders |-> 0]
  /\ now = 0
  /\ req = [p \in Procs |-> Idle]
  /\ last = [op |-> "none", outcome |-> "none"]

Respond(op, outcome) == last' = [op |-> op, outcome |-> outcome]

\* sendNotification resolves, or rejects when the user lookup, every channel
\* or the notifications insert fails
sendNotification(fails) == IF fails THEN "rejected" ELSE "fulfilled"

\* the answer of a handler that awaits the notification inside its try block
AwaitNotification(promise, outcome) ==
  IF promise = "rejected" THEN "NotificationFailed" ELSE outcome

\* the answer of a handler that collects its notifications with
\* Promise.allSettled
SettleNotifications(promise, outcome) == outcome

\* ------------------------------------------- POST /optimize (admin)
OptimizeOrders(p, maxPer, filter) ==
  /\ req[p].pc = "idle"
  /\ IF OrdersToRoute = <<>>
     THEN /\ Respond("optimize", "NoOrdersAvailable")
          /\ UNCHANGED req
     ELSE /\ req' = [req EXCEPT ![p] = [pc |-> "opt_agents",
                                        orders |-> OrdersToRoute,
                                        maxPer |-> maxPer,
                                        filter |-> filter]]
          /\ UNCHANGED last
  /\ UNCHANGED <<routes, legs, avail, loc, ostatus, now, pickups, payments>>

\* The availableAgents statement is sent with the bind values of the orders
\* statement ('confirmed', the district), which its text does not reference.
\* bindRejected: the database refuses the surplus values, as PostgreSQL does,
\* and the query throws.
OptimizeAgents(p, bindRejected) ==
  /\ req[p].pc = "opt_agents"
  /\ LET availableAgents == AvailableAgents(req[p].filter)
     IN IF bindRejected
        THEN /\ Respond("optimize", "StorageError")
             /\ req' = [req EXCEPT ![p] = Idle]
        ELSE IF availableAgents = <<>>
        THEN /\ Respond("optimize", "NoAgentsAvailable")
             /\ req' = [req EXCEPT ![p] = Idle]
        ELSE /\ req' = [req EXCEPT ![p] =
                          [pc |-> "opt_persist",
                           plans |-> BuildRoutes(availableAgents, req[p].orders, 0,
                                                 req[p].maxPer, loc)]]
             /\ UNCHANGED last
  /\ UNCHANGED <<routes, legs, avail, loc, ostatus, now, pickups, payments>>

RECURSIVE LegsBefore(_, _)
LegsBefore(plans, j) ==
  IF j <= 1 THEN 0 ELSE Len(plans[j - 1].orders) + LegsBefore(plans, j - 1)

\* fault variant of PlanLegs: the loop index is written as sequence number
PlanLegsZeroBased(plans, j, firstId, tickAt) ==
  {[route |-> firstId + j - 1,
    order |-> plans[j].orders[i],
    seq |-> i - 1,
    pickupEta |-> now + (i - 1) * PickupSpacingMinutes * MsPerMinute,
    deliveryEta |-> now + (i - 1) * PickupSpacingMinutes * MsPerMinute
                    + DeliveryOffsetMinutes * MsPerMinute,
    pickedAt |-> NULL,
    deliveredAt |-> NULL] : i \in 1..Len(plans[j].orders)}

\* the rows of route_orders written for plan j; the clock ticks once just
\* before the tickAt-th leg write of the transaction (tickAt = 0: no tick)
PlanLegs(plans, j, firstId, tickAt) ==
  {[route |-> firstId + j - 1,
    order |-> plans[j].orders[i],
    seq |-> i,
    pickupEta |-> (IF tickAt > 0 /\ LegsBefore(plans, j) + i >= tickAt
                   THEN now + 1 ELSE now)
                  + (i - 1) * PickupSpacingMinutes * MsPerMinute,
    deliveryEta |-> (IF tickAt > 0 /\ LegsBefore(plans, j) + i >= tickAt
                     THEN now + 1 ELSE now)
                    + (i - 1) * PickupSpacingMinutes * MsPerMinute
                    + DeliveryOffsetMinutes * MsPerMinute,
    pickedAt |-> NULL,
    deliveredAt |-> NULL] : i \in 1..Len(plans[j].orders)}

\* the statements of the persist transaction, in order: for each plan the
\* route insert, then one insert per leg
PersistStatements(plans) == Len(plans) + LegsBefore(plans, Len(plans) + 1)

\* the tables as the persist transaction sees them after its first `done`
\* statements
PersistWrites(plans, tickAt, done) ==
  LET stored == {j \in 1..Len(plans) : LegsBefore(plans, j) + j <= done}
  IN [routes |-> routes \o
                   [j \in 1..Cardinality(stored) |->
                      [agent |-> plans[j].agent,
                       status |-> "planned",
                       totalDistance |-> plans[j].totalDistance,
                       estimatedDuration |-> plans[j].estimatedDuration]],
      legs |-> legs \cup
                 UNION {{l \in PlanLegs(plans, j, Len(routes) + 1, tickAt) :
                           LegsBefore(plans, j) + j + l.seq <= done} :
                        j \in 1..Len(plans)}]

\* fault variant of transaction: a throwing callback's writes are kept
transactionNoRollback(before, written, throws) == written

\* the tables after transaction(callback): the callback's writes after
\* COMMIT, the tables as they were after ROLLBACK when the callback throws
transaction(before, written, throws) == IF throws THEN before ELSE written

\* cap bounds the number of stored routes
OptimizePersist(p, tickAt, cap, notifyFails) ==
  /\ req[p].pc = "opt_persist"
  /\ LET plans == req[p].plans
         result == transaction([routes |-> routes, legs |-> legs],
                               PersistWrites(plans, tickAt, PersistStatements(plans)),
                               FALSE)
     IN /\ Len(routes) + Len(plans) <= cap
        /\ tickAt <= LegsBefore(plans, Len(plans) + 1)
        /\ tickAt > 0 => now < MaxTime
        /\ routes' = result.routes
        /\ legs' = result.legs
        /\ now' = IF tickAt > 0 THEN now + 1 ELSE now
  /\ req' = [req EXCEPT ![p] = Idle]
  /\ Respond("optimize", SettleNotifications(sendNotification(notifyFails), "ok"))
  /\ UNCHANGED <<avail, loc, ostatus, pickups, payments>>

\* statement failAt of the persist transaction throws (a failed route or leg
\* insert, a lost connection)
OptimizeAbort(p, failAt) ==
  /\ req[p].pc = "opt_persist"
  /\ failAt <= PersistStatements(req[p].plans)
  /\ LET result == transaction([routes |-> routes, legs |-> legs],
                               PersistWrites(req[p].plans, 0, failAt - 1),
                               TRUE)
     IN /\ routes' = result.routes
        /\ legs' = result.legs
  /\ req' = [req EXCEPT ![p] = Idle]
  /\ Respond("optimize", "StorageError")
  /\ UNCHANGED <<avail, loc, ostatus, now, pickups, payments>>

\* ------------------------------------ PUT /:routeId/status (admin)
AdminStatus(r, status, notifyFails) ==
  /\ IF ~RouteExists(r)
     THEN /\ Respond("status", "RouteNotFound")
          /\ UNCHANGED <<routes, avail>>
     ELSE /\ routes' = [routes EXCEPT ![r].status = status]
          /\ avail' = IF status \in {"completed", "cancelled"}
                      THEN [avail EXCEPT ![routes[r].agent] = TRUE]
                      ELSE IF status = "active"
                      THEN [avail EXCEPT ![routes[r].agent] = FALSE]
                      ELSE avail
          /\ Respond("status", AwaitNotification(sendNotification(notifyFails), "ok"))
  /\ UNCHANGED <<legs, loc, ostatus, now, req, pickups, payments>>

\* ------------------------- POST /routes/:routeId/start (the agent)
CourierStart(a, r, withLocation, location) ==
  /\ IF RouteExists(r) /\ routes[r].agent = a /\ routes[r].status = "planned"
     THEN /\ routes' = [routes EXCEPT ![r].status = "active"]
          /\ IF withLocation
             THEN /\ loc' = [loc EXCEPT ![a] = location]
                  /\ avail' = [avail EXCEPT ![a] = FALSE]
             ELSE UNCHANGED <<loc, avail>>
          /\ Respond("start", "ok")
     ELSE /\ Respond("start", "NotFoundOrCannotStart")
          /\ UNCHANGED <<routes, loc, avail>>
  /\ UNCHANGED <<legs, ostatus, now, req, pickups, payments>>

\* ---------------------- POST /routes/:routeId/complete (the agent)
CompleteCheck(p, a, r) ==
  /\ req[p].pc = "idle"
  /\ IF IncompleteOrders(r) # {}
     THEN /\ Respond("complete", "IncompleteOrders")
          /\ UNCHANGED req
     ELSE /\ req' = [req EXCEPT ![p] = [pc |-> "co_write", agent |-> a, route |-> r]]
          /\ UNCHANGED last
  /\ UNCHANGED <<routes, legs, avail, loc, ostatus, now, pickups, payments>>

CompleteWrite(p) ==
  /\ req[p].pc = "co_write"
  /\ LET r == req[p].route
         a == req[p].agent
     IN IF RouteExists(r) /\ routes[r].agent = a
        THEN /\ routes' = [routes EXCEPT ![r].status = "completed"]
             /\ avail' = [avail EXCEPT ![a] = TRUE]
             /\ Respond("complete", "ok")
        ELSE /\ Respond("complete", "RouteNotFound")
             /\ UNCHANGED <<routes, avail>>
  /\ req' = [req EXCEPT ![p] = Idle]
  /\ UNCHANGED <<legs, loc, ostatus, now, pickups, payments>>

\* ---------------------------------- PUT /:routeId/reassign (admin)
ReassignCheck(p, r, newAgent) ==
  /\ req[p].pc = "idle"
  /\ IF ~avail[newAgent]
     THEN /\ Respond("reassign", "CourierUnavailable")
          /\ UNCHANGED req
     ELSE /\ req' = [req EXCEPT ![p] = [pc |-> "re_read", route |-> r,
                                        newAgent |-> newAgent, raced |-> FALSE]]
          /\ UNCHANGED last
  /\ UNCHANGED <<routes, legs, avail, loc, ostatus, now, pickups, payments>>

\* fault variant of ReassignRead: the new agent is marked busy before the
\* route is looked up, and the lookup's failure does not undo it
ReassignReadFlagFirst(p) ==
  /\ req[p].pc = "re_read"
  /\ IF ~RouteExists(req[p].route)
     THEN /\ Respond("reassign", "RouteNotFound")
          /\ req' = [req EXCEPT ![p] = Idle]
          /\ avail' = [avail EXCEPT ![req[p].newAgent] = FALSE]
     ELSE /\ req' = [req EXCEPT ![p] = [pc |-> "re_write", route |-> req[p].route,
                                        newAgent |-> req[p].newAgent,
                                        oldAgent |-> routes[req[p].route].agent,
                                        raced |-> req[p].raced]]
          /\ UNCHANGED <<last, avail>>
  /\ UNCHANGED <<routes, legs, loc, ostatus, now, pickups, payments>>

ReassignRead(p) ==
  /\ req[p].pc = "re_read"
  /\ IF ~RouteExists(req[p].route)
     THEN /\ Respond("reassign", "RouteNotFound")
          /\ req' = [req EXCEPT ![p] = Idle]
     ELSE /\ req' = [req EXCEPT ![p] = [pc |-> "re_write", route |-> req[p].route,
                                        newAgent |-> req[p].newAgent,
                                        oldAgent |-> routes[req[p].route].agent,
                                        raced |-> req[p].raced]]
          /\ UNCHANGED last
  /\ UNCHANGED <<routes, legs, avail, loc, ostatus, now, pickups, payments>>

\* raced is history only: it records, in every other reassign that has passed
\* its availability check and not yet committed, that a reassign naming the
\* same new agent has committed meanwhile
ReassignWrite(p, notifyFails) ==
  /\ req[p].pc = "re_write"
  /\ routes' = [routes EXCEPT ![req[p].route].agent = req[p].newAgent]
  /\ avail' = [[avail EXCEPT ![req[p].oldAgent] = TRUE]
                 EXCEPT ![req[p].newAgent] = FALSE]
  /\ req' = [q \in Procs |->
               IF q = p THEN Idle
               ELSE IF /\ req[q].pc \in {"re_read", "re_write"}
                       /\ req[q].newAgent = req[p].newAgent
                    THEN [req[q] EXCEPT !.raced = TRUE]
                    ELSE req[q]]
  /\ Respond("reassign", SettleNotifications(sendNotification(notifyFails), "ok"))
  /\ UNCHANGED <<legs, loc, ostatus, now, pickups, payments>>

\* -------------------------------- PUT /profile, case 'agent'
ProfileUpdate(a, isAvailable) ==
  /\ avail' = [avail EXCEPT ![a] = isAvailable]
  /\ Respond("profile", "ok")
  /\ UNCHANGED <<routes, legs, loc, ostatus, now, req, pickups, payments>>

\* ------------------------ PUT /:orderId/status (admin and agents)
OrderStatus(o, status) ==
  /\ ostatus' = [ostatus EXCEPT ![o] = status]
  /\ legs' = {IF l.order # o THEN l
              ELSE IF status = "picked" THEN [l EXCEPT !.pickedAt = now]
              ELSE IF status = "delivered" THEN [l EXCEPT !.deliveredAt = now]
              ELSE l : l \in legs}
  /\ Respond("order", "ok")
  /\ UNCHANGED <<routes, avail, loc, now, req, pickups, payments>>

\* --------------------------------------- POST /scan-qr (the agent)
\* orderCheck and the checks on its first row
ScanCheck(p, a, o, action, location) ==
  /\ req[p].pc = "idle"
  /\ LET rows == {l \in legs : /\ l.order = o
                               /\ routes[l.route].agent = a
                               /\ routes[l.route].status = "active"}
         proceed == /\ req' = [req EXCEPT ![p] = [pc |-> "scan_write", agent |-> a,
                                                  order |-> o, action |-> action,
                                                  location |-> location]]
                    /\ UNCHANGED last
     IN IF rows = {}
        THEN /\ Respond("scan", "OrderNotInActiveRoute")
             /\ UNCHANGED req
        ELSE \E row \in rows :
               IF action = "pickup"
               THEN IF ostatus[o] # "confirmed"
                    THEN /\ Respond("scan", "NotReadyForPickup")
                         /\ UNCHANGED req
                    ELSE IF row.pickedAt # NULL
                    THEN /\ Respond("scan", "AlreadyPickedUp")
                         /\ UNCHANGED req
                    ELSE proceed
               ELSE IF ostatus[o] \notin {"picked", "in_transit"}
                    THEN /\ Respond("scan", "NotReadyForDelivery")
                         /\ UNCHANGED req
                    ELSE IF row.deliveredAt # NULL
                    THEN /\ Respond("scan", "AlreadyDelivered")
                         /\ UNCHANGED req
                    ELSE proceed
  /\ UNCHANGED <<routes, legs, avail, loc, ostatus, now, pickups, payments>>

\* the updates of the scan transaction
ScanWrite(p) ==
  /\ req[p].pc = "scan_write"
  /\ LET a == req[p].agent
         o == req[p].order
     IN /\ IF req[p].action = "pickup"
           THEN /\ ostatus' = [ostatus EXCEPT ![o] = "picked"]
                /\ legs' = {IF l.order = o THEN [l EXCEPT !.pickedAt = now] ELSE l :
                            l \in legs}
                /\ pickups' = [pickups EXCEPT ![a] = @ + 1]
                /\ UNCHANGED payments
           ELSE /\ ostatus' = [ostatus EXCEPT ![o] = "delivered"]
                /\ legs' = {IF l.order = o THEN [l EXCEPT !.deliveredAt = now] ELSE l :
                            l \in legs}
                /\ payments' = [payments EXCEPT ![o] = @ + 1]
                /\ UNCHANGED pickups
        /\ loc' = [loc EXCEPT ![a] = req[p].location]
  /\ req' = [req EXCEPT ![p] = Idle]
  /\ Respond("scan", "ok")
  /\ UNCHANGED <<routes, avail, now>>

\* ------------------------------------------------------- specifications
\* Spec: route administration. Every handler but the scans, with at most one
\* of the multi-statement handlers (optimize, complete, reassign) in flight
\* at a time; the single-statement handlers run between its statements.
Next ==
  \/ \E maxPer \in 1..MaxPerRoute, filter \in Agents \cup {None} :
       OptimizeOrders(1, maxPer, filter)
  \/ OptimizeAgents(1, FALSE)
  \/ OptimizePersist(1, 0, MaxRoutes, FALSE)
  \/ \E failAt \in 1..(NumAgents + NumOrders) : OptimizeAbort(1, failAt)
  \/ \E r \in RouteIds, status \in RouteStatuses : AdminStatus(r, status, FALSE)
  \/ \E a \in Agents, r \in RouteIds, withLocation \in BOOLEAN :
       CourierStart(a, r, withLocation, 0)
  \/ \E a \in Agents, r \in RouteIds : CompleteCheck(1, a, r)
  \/ CompleteWrite(1)
  \/ \E r \in RouteIds, newAgent \in Agents : ReassignCheck(1, r, newAgent)
  \/ ReassignRead(1)
  \/ ReassignWrite(1, FALSE)
  \/ \E a \in Agents, isAvailable \in BOOLEAN : ProfileUpdate(a, isAvailable)
  \/ \E o \in Orders, status \in {"confirmed", "delivered"} : OrderStatus(o, status)

Spec == Init /\ [][Next]_vars

\* SpecRace: planning, activation, cancellation and reassignment with up to
\* NumProcs multi-statement handlers in flight together.
NextRace ==
  \/ \E p \in Procs, maxPer \in 1..MaxPerRoute : OptimizeOrders(p, maxPer, None)
  \/ \E p \in Procs : OptimizeAgents(p, FALSE)
  \/ \E p \in Procs : OptimizePersist(p, 0, MaxRoutes, FALSE)
  \/ \E p \in Procs, failAt \in 1..(NumAgents + NumOrders) : OptimizeAbort(p, failAt)
  \/ \E r \in RouteIds, status \in RouteStatuses : AdminStatus(r, status, FALSE)
  \/ \E a \in Agents, r \in RouteIds, withLocation \in BOOLEAN :
       CourierStart(a, r, withLocation, 0)
  \/ \E p \in Procs, r \in RouteIds, newAgent \in Agents : ReassignCheck(p, r, newAgent)
  \/ \E p \in Procs : ReassignRead(p)
  \/ \E p \in Procs : ReassignWrite(p, FALSE)

SpecRace == Init /\ [][NextRace]_vars

\* SpecPlan: up to NumProcs planning calls in flight together, the clock
\* ticking between the leg writes of a persist transaction, agents switching
\* their availability, and the database refusing the surplus bind values of
\* the agents query; one route more than MaxRoutes may be stored. In the
\* other specifications the database executes that query.
NextPlan ==
  \/ \E p \in Procs, maxPer \in 1..MaxPerRoute : OptimizeOrders(p, maxPer, None)
  \/ \E p \in Procs, bindRejected \in BOOLEAN : OptimizeAgents(p, bindRejected)
  \/ \E p \in Procs, tickAt \in 0..NumOrders : OptimizePersist(p, tickAt, MaxRoutes + 1, FALSE)
  \/ \E p \in Procs, failAt \in 1..(NumAgents + NumOrders) : OptimizeAbort(p, failAt)
  \/ \E a \in Agents, isAvailable \in BOOLEAN : ProfileUpdate(a, isAvailable)

SpecPlan == Init /\ [][NextPlan]_vars

\* SpecScan: field work. Planning, activation, the admin's status changes,
\* reassignment, pickup and delivery scans and orders set back to confirmed,
\* with at most one multi-statement handler in flight.
NextScan ==
  \/ \E maxPer \in 1..MaxPerRoute : OptimizeOrders(1, maxPer, None)
  \/ OptimizeAgents(1, FALSE)
  \/ OptimizePersist(1, 0, MaxRoutes, FALSE)
  \/ \E r \in RouteIds, status \in RouteStatuses : AdminStatus(r, status, FALSE)
  \/ \E a \in Agents, r \in RouteIds, withLocation \in BOOLEAN :
       CourierStart(a, r, withLocation, 0)
  \/ \E r \in RouteIds, newAgent \in Agents : ReassignCheck(1, r, newAgent)
  \/ ReassignRead(1)
  \/ ReassignWrite(1, FALSE)
  \/ \E a \in Agents, o \in Orders, action \in {"pickup", "delivery"} :
       ScanCheck(1, a, o, action, 0)
  \/ ScanWrite(1)
  \/ \E o \in Orders : OrderStatus(o, "confirmed")

SpecScan == Init /\ [][NextScan]_vars

\* SpecScanRace: up to NumProcs scan-qr transactions in flight together, on
\* routes that one planning call at a time stores and the agents start.
NextScanRace ==
  \/ \E maxPer \in 1..MaxPerRoute : OptimizeOrders(1, maxPer, None)
  \/ OptimizeAgents(1, FALSE)
  \/ OptimizePersist(1, 0, MaxRoutes, FALSE)
  \/ \E a \in Agents, r \in RouteIds, withLocation \in BOOLEAN :
       CourierStart(a, r, withLocation, 0)
  \/ \E p \in Procs, a \in Agents, o \in Orders, action \in {"pickup", "delivery"} :
       ScanCheck(p, a, o, action, 0)
  \/ \E p \in Procs : ScanWrite(p)
  \/ \E o \in Orders : OrderStatus(o, "confirmed")

SpecScanRace == Init /\ [][NextScanRace]_vars

\* SpecNotify: the three handlers that notify the courier after their
\* commit, with notifications that may fail. In the other specifications
\* every notification is delivered.
NextNotify ==
  \/ \E maxPer \in 1..MaxPerRoute, filter \in Agents \cup {None} :
       OptimizeOrders(1, maxPer, filter)
  \/ OptimizeAgents(1, FALSE)
  \/ \E notifyFails \in BOOLEAN : OptimizePersist(1, 0, MaxRoutes, notifyFails)
  \/ \E r \in RouteIds, status \in RouteStatuses, notifyFails \in BOOLEAN :
       AdminStatus(r, status, notifyFails)
  \/ \E r \in RouteIds, newAgent \in Agents : ReassignCheck(1, r, newAgent)
  \/ ReassignRead(1)
  \/ \E notifyFails \in BOOLEAN : ReassignWrite(1, notifyFails)

SpecNotify == Init /\ [][NextNotify]_vars

\* SpecBuild: the build loop as a function of its inputs. A call starts from
\* any pool of orders (oldest first), any list of available agents (best
\* rating first), any agent locations and any max_orders_per_route.
InitBuild ==
  /\ routes = <<>>
  /\ legs = {}
  /\ avail = [a \in Agents |-> TRUE]
  /\ loc = [a \in Agents |-> 0]
  /\ ostatus = [o \in Orders |-> "confirmed"]
  /\ pickups = [a \in Agents |-> 0]
  /\ payments = [o \in Orders |-> 0]
  /\ now = 0
  /\ last = [op |-> "none", outcome |-> "none"]
  /\ \E pool \in SUBSET (1..BuildOrders), available \in SUBSET (1..BuildAgents),
        maxPer \in 1..BuildMaxPer, location \in [1..BuildAgents -> {0, 4}] :
       req = [p \in Procs |->
                IF p = 1
                THEN [pc |-> "build", orders |-> Ascending(pool),
                      agents |-> ByRatingDesc(available), maxPer |-> maxPer,
                      location |-> location]
                ELSE Idle]

BuildCall(p) ==
  /\ req[p].pc = "build"
  /\ req' = [req EXCEPT ![p] =
               [pc |-> "built", orders |-> req[p].orders, maxPer |-> req[p].maxPer,
                agents |-> req[p].agents, location |-> req[p].location,
                plans |-> BuildRoutes(req[p].agents, req[p].orders, 0,
                                      req[p].maxPer, req[p].location)]]
  /\ UNCHANGED <<routes, legs, avail, loc, ostatus, pickups, payments, now, last>>

\* the body of the 201 response: success, the message with the number of
\* routes, and per created route its id, order_count and metrics
OptimizeResponse(plans, firstId) ==
  [success |-> TRUE,
   message |-> Len(plans),
   data |-> [j \in 1..Len(plans) |->
               [route |-> firstId + j - 1,
                order_count |-> Len(plans[j].orders),
                total_distance |-> plans[j].totalDistance,
                estimated_duration |-> plans[j].estimatedDuration]]]

\* the plans of a build are stored and the call is answered
BuildPersist(p) ==
  /\ req[p].pc = "built"
  /\ req[p].plans # <<>>
  /\ LET plans == req[p].plans
         result == transaction([routes |-> routes, legs |-> legs],
                               PersistWrites(plans, 0, PersistStatements(plans)),
                               FALSE)
     IN /\ routes' = result.routes
        /\ legs' = result.legs
        /\ req' = [req EXCEPT ![p] =
                     [pc |-> "answered", orders |-> req[p].orders,
                      maxPer |-> req[p].maxPer, agents |-> req[p].agents,
                      plans |-> plans,
                      response |-> OptimizeResponse(plans, Len(routes) + 1)]]
  /\ Respond("optimize", "ok")
  /\ UNCHANGED <<avail, loc, ostatus, pickups, payments, now>>

NextBuild ==
  \/ \E p \in Procs : BuildCall(p)
  \/ \E p \in Procs : BuildPersist(p)

SpecBuild == InitBuild /\ [][NextBuild]_vars

\* SpecSequence: optimizeRoute as a function of its inputs. A call starts
\* from any list of up to SeqLen orders and any start coordinate.
InitSequence ==
  /\ routes = <<>>
  /\ legs = {}
  /\ avail = [a \in Agents |-> TRUE]
  /\ loc = [a \in Agents |-> 0]
  /\ ostatus = [o \in Orders |-> "confirmed"]
  /\ pickups = [a \in Agents |-> 0]
  /\ payments = [o \in Orders |-> 0]
  /\ now = 0
  /\ last = [op |-> "none", outcome |-> "none"]
  /\ \E n \in 0..SeqLen, startLocation \in 0..SeqSpan :
       \E orders \in [1..n -> 1..SeqOrders] :
         req = [p \in Procs |->
                  IF p = 1
                  THEN [pc |-> "sequence", orders |-> orders,
                        startLocation |-> startLocation]
                  ELSE Idle]

SequenceCall(p) ==
  /\ req[p].pc = "sequence"
  /\ req' = [req EXCEPT ![p] =
               [pc |-> "sequenced", orders |-> req[p].orders,
                startLocation |-> req[p].startLocation,
                optimizedRoute |-> optimizeRoute(req[p].orders, req[p].startLocation)]]
  /\ UNCHANGED <<routes, legs, avail, loc, ostatus, pickups, payments, now, last>>

NextSequence == \E p \in Procs : SequenceCall(p)

SpecSequence == InitSequence /\ [][NextSequence]_vars

\* ------------------------------------------------------------------ claims
\* C1: in every reachable state each courier is the assigned courier of at
\* most one route whose status is planned or active.
C1_OneOpenRoutePerCourier ==
  \A a \in Agents :
    Cardinality({r \in 1..Len(routes) :
                   /\ routes[r].agent = a
                   /\ routes[r].status \in {"planned", "active"}}) <= 1

\* C2: a reassign that has passed its availability check while another
\* reassign naming the same new courier commits does not itself commit: it
\* ends with CourierUnavailable.
C2_RacingReassignLoses ==
  [][\A p \in Procs :
       (req[p].pc = "re_write" /\ req[p].raced /\ req'[p].pc = "idle")
         => last'.outcome = "CourierUnavailable"]_vars

\* C3: in every reachable state no order is referenced by legs of two
\* different routes that are both planned or active.
C3_OrderOnOneOpenRoute ==
  \A l1 \in legs, l2 \in legs :
    (l1.order = l2.order /\ l1.route # l2.route)
      => ~(/\ routes[l1.route].status \in {"planned", "active"}
           /\ routes[l2.route].status \in {"planned", "active"})

\* C4: once a route is completed or cancelled, no step changes its status.
C4_TerminalStatusStays ==
  [][\A r \in 1..Len(routes) :
       routes[r].status \in {"completed", "cancelled"}
         => routes'[r].status = routes[r].status]_vars

\* C5: a transition whose target is not one step from the route's current
\* status in planned->active, active->completed, planned->cancelled,
\* active->cancelled (a repeated target included) fails with
\* InvalidTransition and leaves the route and every courier's availability
\* unchanged.
C5_InvalidTransitionRejected ==
  [][LET OneStep(from, to) ==
           \/ from = "planned" /\ to \in {"active", "cancelled"}
           \/ from = "active" /\ to \in {"completed", "cancelled"}
     IN /\ \A r \in 1..Len(routes), status \in RouteStatuses :
             ((\E notifyFails \in BOOLEAN : AdminStatus(r, status, notifyFails))
                /\ ~OneStep(routes[r].status, status))
               => (last'.outcome = "InvalidTransition" /\ UNCHANGED <<routes, avail>>)
        /\ \A a \in Agents, r \in 1..Len(routes), withLocation \in BOOLEAN :
             (/\ CourierStart(a, r, withLocation, 0)
              /\ routes[r].agent = a
              /\ ~OneStep(routes[r].status, "active"))
               => (last'.outcome # "ok" /\ UNCHANGED <<routes, avail>>)]_vars

\* C6: on every path that sets a route to completed (the admin status update
\* with target completed, the courier's complete): with a leg whose order is
\* neither delivered nor cancelled the operation fails with IncompleteOrders
\* and changes neither the route nor availability; otherwise the route
\* becomes completed and its courier available.
C6_CompleteNeedsTerminalOrders ==
  [][/\ \A r \in 1..Len(routes) :
          (\E notifyFails \in BOOLEAN : AdminStatus(r, "completed", notifyFails))
            => IF IncompleteOrders(r) # {}
               THEN last'.outcome = "IncompleteOrders" /\ UNCHANGED <<routes, avail>>
               ELSE routes'[r].status = "completed" /\ avail'[routes[r].agent]
     /\ \A p \in Procs, a \in Agents, r \in 1..Len(routes) :
          (CompleteCheck(p, a, r) /\ IncompleteOrders(r) # {})
            => last'.outcome = "IncompleteOrders" /\ UNCHANGED <<routes, avail>>
     /\ \A p \in Procs :
          (CompleteWrite(p) /\ last'.outcome = "ok")
            => /\ IncompleteOrders(req[p].route) = {}
               /\ routes'[req[p].route].status = "completed"
               /\ avail'[req[p].agent]]_vars

\* C7: every step that takes a route from planned to active leaves the
\* route's courier with available = false.
C7_ActivationMarksCourierBusy ==
  [][\A r \in 1..Len(routes) :
       (routes[r].status = "planned" /\ routes'[r].status = "active")
         => ~avail'[routes'[r].agent]]_vars

\* C8: in every reachable state the courier of an active route has
\* available = false.
C8_ActiveCourierUnavailable ==
  \A r \in 1..Len(routes) : routes[r].status = "active" => ~avail[routes[r].agent]

\* C9: in every reachable state each courier is the assigned courier of at
\* most one active route.
C9_OneActiveRoutePerCourier ==
  \A a \in Agents :
    Cardinality({r \in 1..Len(routes) :
                   routes[r].agent = a /\ routes[r].status = "active"}) <= 1

\* C10: the commit of a successful reassign sets the route's courier to the
\* new courier, the new courier's available flag to false and the previous
\* courier's to true, and leaves the route's status and every leg unchanged.
\* When the new courier is the previous one the two flag clauses name one
\* flag; the claim is read there as the last write, false.
C10_ReassignEffect ==
  [][\A p \in Procs :
       (req[p].pc = "re_write" /\ req'[p].pc = "idle")
         => LET r == req[p].route
                newAgent == req[p].newAgent
                previous == routes[r].agent
            IN /\ routes'[r].agent = newAgent
               /\ ~avail'[newAgent]
               /\ (previous # newAgent => avail'[previous])
               /\ routes'[r].status = routes[r].status
               /\ legs' = legs]_vars

\* C11: a reassign whose new courier has available = false answers
\* CourierUnavailable; a reassign whose new courier is available and whose
\* route id does not exist answers RouteNotFound; either failure leaves every
\* route, every leg and every courier's available flag as it was.
C11_ReassignFailureLeavesState ==
  [][/\ \A p \in Procs, r \in RouteIds, newAgent \in Agents :
          (ReassignCheck(p, r, newAgent) /\ ~avail[newAgent])
            => /\ last' = [op |-> "reassign", outcome |-> "CourierUnavailable"]
               /\ UNCHANGED <<routes, legs, avail>>
     /\ \A p \in Procs :
          (ReassignRead(p) /\ ~RouteExists(req[p].route))
            => /\ last' = [op |-> "reassign", outcome |-> "RouteNotFound"]
               /\ UNCHANGED <<routes, legs, avail>>]_vars

\* a reassign of a missing route id has failed while a route is stored and
\* the courier it named is still available
C11_Witness ==
  /\ last = [op |-> "reassign", outcome |-> "RouteNotFound"]
  /\ Len(routes) = 1
  /\ \E a \in Agents : avail[a]

\* C12: a courier start or courier complete asked by a courier who is not the
\* route's assigned courier is answered as the same request for a route id
\* that does not exist is answered (start: the not-found answer at once;
\* complete: no pending-orders answer, then RouteNotFound), whatever the
\* route's status and its orders' statuses, and changes no state.
C12_MismatchLooksLikeMissing ==
  [][/\ \A a \in Agents, r \in RouteIds, withLocation \in BOOLEAN :
          (CourierStart(a, r, withLocation, 0) /\ RouteExists(r) /\ routes[r].agent # a)
            => /\ last' = [op |-> "start", outcome |-> "NotFoundOrCannotStart"]
               /\ UNCHANGED <<routes, legs, avail, ostatus>>
     /\ \A p \in Procs, a \in Agents, r \in RouteIds :
          (CompleteCheck(p, a, r) /\ RouteExists(r) /\ routes[r].agent # a)
            => /\ req'[p].pc = "co_write"
               /\ UNCHANGED <<routes, legs, avail, ostatus>>
     /\ \A p \in Procs :
          (/\ CompleteWrite(p)
           /\ RouteExists(req[p].route)
           /\ routes[req[p].route].agent # req[p].agent)
            => /\ last' = [op |-> "complete", outcome |-> "RouteNotFound"]
               /\ UNCHANGED <<routes, legs, avail, ostatus>>]_vars

\* C13: a persist call stores all of its writes or none: when a statement
\* of the transaction fails, routes and legs are as before the call; when it
\* commits, every plan has its route and that route has exactly one leg for
\* each order of the plan and no other leg; so every stored route has legs.
C13_PersistAllOrNothing ==
  [][/\ \A p \in Procs :
          (req[p].pc = "opt_persist" /\ req'[p].pc = "idle")
            => LET plans == req[p].plans
               IN IF last' = [op |-> "optimize", outcome |-> "ok"]
                  THEN /\ Len(routes') = Len(routes) + Len(plans)
                       /\ legs \subseteq legs'
                       /\ \A j \in 1..Len(plans), o \in Orders :
                            Cardinality({l \in legs' : /\ l.route = Len(routes) + j
                                                      /\ l.order = o})
                              = IF \E i \in 1..Len(plans[j].orders) : plans[j].orders[i] = o
                                THEN 1 ELSE 0
                  ELSE routes' = routes /\ legs' = legs
     /\ \A r \in 1..Len(routes') : \E l \in legs' : l.route = r]_vars

\* a persist call has failed while an earlier call's route is stored
C13_Witness ==
  /\ last = [op |-> "optimize", outcome |-> "StorageError"]
  /\ Len(routes) = 1
  /\ \E l \in legs : l.route = 1

\* C14: when a persist call with several plans commits while an order of one
\* of its plans already has a leg, that plan is not persisted and the plans
\* none of whose orders has a leg are persisted.
C14_OnlyRoutedPlanFails ==
  [][\A p \in Procs :
       (/\ req[p].pc = "opt_persist"
        /\ req'[p].pc = "idle"
        /\ last' = [op |-> "optimize", outcome |-> "ok"]
        /\ Len(req[p].plans) > 1)
         => LET plans == req[p].plans
                routed(j) == \E i \in 1..Len(plans[j].orders), l \in legs :
                               l.order = plans[j].orders[i]
                written(j) == \E i \in 1..Len(plans[j].orders), l \in legs' \ legs :
                                l.order = plans[j].orders[i]
            IN \A j \in 1..Len(plans) : written(j) <=> ~routed(j)]_vars

\* C15: the commit of a successful planning call changes no courier's
\* available flag and no order's status; every route it creates is planned,
\* every courier it assigns has available = true afterwards and every order
\* it routes has status confirmed afterwards.
C15_PersistKeepsAvailableConfirmed ==
  [][\A p \in Procs :
       (/\ req[p].pc = "opt_persist"
        /\ req'[p].pc = "idle"
        /\ last' = [op |-> "optimize", outcome |-> "ok"])
         => LET plans == req[p].plans
            IN /\ avail' = avail
               /\ ostatus' = ostatus
               /\ \A j \in 1..Len(plans) :
                    /\ routes'[Len(routes) + j].status = "planned"
                    /\ avail'[plans[j].agent]
                    /\ \A i \in 1..Len(plans[j].orders) :
                         ostatus'[plans[j].orders[i]] = "confirmed"]_vars

\* C16: in every reachable state the sequence numbers of the legs of a route
\* with n legs are exactly 1..n, none missing and none twice, and no order
\* has two legs in one route.
C16_DenseSequences ==
  \A r \in 1..Len(routes) :
    LET ls == {l \in legs : l.route = r}
    IN /\ {l.seq : l \in ls} = 1..Cardinality(ls)
       /\ \A l1 \in ls, l2 \in ls : l1.order = l2.order => l1 = l2

\* an active route of two legs after a delivery scan of one of them
C16_Witness ==
  /\ last = [op |-> "scan", outcome |-> "ok"]
  /\ \E r \in 1..Len(routes) :
       /\ routes[r].status = "active"
       /\ Cardinality({l \in legs : l.route = r}) = 2
       /\ \E l \in legs : l.route = r /\ l.seq = 2 /\ l.deliveredAt # NULL

\* C17: in every stored route the pickup ETAs of consecutive legs are exactly
\* 30 minutes apart and each leg's delivery ETA is exactly 20 minutes after
\* its pickup ETA, whatever time passes between the leg writes.
C17_EtaSpacing ==
  /\ \A l1 \in legs, l2 \in legs :
       (l1.route = l2.route /\ l2.seq = l1.seq + 1)
         => l2.pickupEta - l1.pickupEta = PickupSpacingMinutes * MsPerMinute
  /\ \A l \in legs : l.deliveryEta - l.pickupEta = DeliveryOffsetMinutes * MsPerMinute

\* C18: a planning call, an admin status change and a reassign whose
\* transaction commits answer success, also when the notification to the
\* courier fails.
C18_CommitReportsSuccess ==
  [][\A notifyFails \in BOOLEAN :
       /\ \A p \in Procs :
            OptimizePersist(p, 0, MaxRoutes, notifyFails)
              => last' = [op |-> "optimize", outcome |-> "ok"]
       /\ \A r \in RouteIds, status \in RouteStatuses :
            (AdminStatus(r, status, notifyFails) /\ RouteExists(r))
              => last' = [op |-> "status", outcome |-> "ok"]
       /\ \A p \in Procs :
            ReassignWrite(p, notifyFails)
              => last' = [op |-> "reassign", outcome |-> "ok"]]_vars

\* C19: a planning call that finds no unassigned confirmed order answers
\* NoOrdersAvailable; one that has found such an order and finds no courier
\* available answers NoCouriersAvailable; in both cases no route, leg,
\* courier or order is created or changed.
C19_PreconditionFailures ==
  [][/\ \A p \in Procs, maxPer \in 1..MaxPerRoute, filter \in Agents \cup {None} :
          (OptimizeOrders(p, maxPer, filter) /\ OrdersToRoute = <<>>)
            => /\ last' = [op |-> "optimize", outcome |-> "NoOrdersAvailable"]
               /\ UNCHANGED <<routes, legs, avail, loc, ostatus>>
     /\ \A p \in Procs, bindRejected \in BOOLEAN :
          (OptimizeAgents(p, bindRejected) /\ \A a \in Agents : ~avail[a])
            => /\ last' = [op |-> "optimize", outcome |-> "NoAgentsAvailable"]
               /\ UNCHANGED <<routes, legs, avail, loc, ostatus>>]_vars

\* C20: the plans of one build call each hold at most max_orders_per_route
\* orders, and no order is in two plans or twice in one plan.
C20_PlansBoundedDisjoint ==
  \A p \in Procs :
    req[p].pc = "built"
      => LET plans == req[p].plans
         IN /\ \A j \in 1..Len(plans) : Len(plans[j].orders) <= req[p].maxPer
            /\ \A j \in 1..Len(plans), k \in 1..Len(plans) :
                 \A i \in 1..Len(plans[j].orders), h \in 1..Len(plans[k].orders) :
                   plans[j].orders[i] = plans[k].orders[h] => (j = k /\ i = h)

\* a build over five orders for two agents, two orders each, one left over
C20_Witness ==
  /\ req[1].pc = "built"
  /\ Len(req[1].orders) = 5
  /\ req[1].maxPer = 2
  /\ Len(req[1].plans) = 2
  /\ Len(req[1].plans[1].orders) = 2
  /\ Len(req[1].plans[2].orders) = 2

\* C21: when a build leaves orders of the pool unassigned, the response of
\* the planning call carries, beside the success flag, the message and the
\* list of created routes, the number of orders left unassigned: the pool
\* size minus the number of orders placed in plans.
C21_UnassignedReported ==
  \A p \in Procs :
    req[p].pc = "answered"
      => LET placed == LegsBefore(req[p].plans, Len(req[p].plans) + 1)
             unassigned == Len(req[p].orders) - placed
             response == req[p].response
         IN unassigned > 0
              => \E f \in DOMAIN response \ {"success", "message", "data"} :
                   response[f] = unassigned

\* C22: the sequencer's output holds every order as often as its input does,
\* and an input of no or one order is returned as it is.
C22_SequencePermutes ==
  \A p \in Procs :
    req[p].pc = "sequenced"
      => LET in == req[p].orders
             out == req[p].optimizedRoute
         IN /\ Len(out) = Len(in)
            /\ \A o \in 1..SeqOrders :
                 Cardinality({i \in 1..Len(out) : out[i] = o})
                   = Cardinality({i \in 1..Len(in) : in[i] = o})
            /\ Len(in) <= 1 => out = in

\* four orders, one of them twice, leave the sequencer in another order
C22_Witness ==
  /\ req[1].pc = "sequenced"
  /\ req[1].orders = <<1, 2, 1, 3>>
  /\ req[1].optimizedRoute # req[1].orders

\* C23: the sequencer is greedy nearest-neighbour. Its k-th output is the
\* remaining order whose pickup is nearest to the current position, the one
\* earliest in the input winning a tie; the position starts at the start
\* coordinate and moves to the delivery coordinate of the order just chosen.
C23_GreedyNearest ==
  \A p \in Procs :
    req[p].pc = "sequenced"
      => LET in == req[p].orders
             out == req[p].optimizedRoute
             n == Len(in)
         IN /\ Len(out) = n
            /\ \E pi \in Permutations(1..n) :
                 \A k \in 1..n :
                   LET current == IF k = 1 THEN req[p].startLocation
                                  ELSE DeliveryAt(out[k - 1])
                       remaining == (1..n) \ {pi[h] : h \in 1..(k - 1)}
                       d(i) == getDistance(current, PickupAt(in[i]))
                   IN /\ out[k] = in[pi[k]]
                      /\ n > 1 =>
                           \A i \in remaining :
                             \/ d(pi[k]) < d(i)
                             \/ d(pi[k]) = d(i) /\ pi[k] <= i

\* from coordinate 0 order 2 is nearest; from its delivery point orders 1 and
\* 3 are equally near and order 1, earlier in the input, goes first
C23_Witness ==
  /\ req[1].pc = "sequenced"
  /\ req[1].orders = <<1, 3, 2>>
  /\ req[1].startLocation = 0
  /\ req[1].optimizedRoute = <<2, 1, 3>>

\* C24: a build serves the agents in descending order of rating and gives
\* the k-th of them the k-th block of at most max_orders_per_route orders of
\* the oldest-first pool, until orders or agents run out; persisting stores
\* one planned route per plan whose legs are the orders of that plan.
C24_BlocksByRating ==
  \A p \in Procs :
    req[p].pc \in {"built", "answered"}
      => LET plans == req[p].plans
             orders == req[p].orders
             agents == {req[p].agents[i] : i \in 1..Len(req[p].agents)}
             maxPer == req[p].maxPer
             Block(k) == {orders[i] : i \in ((k - 1) * maxPer + 1)
                                              ..Min(k * maxPer, Len(orders))}
         IN /\ Len(plans) = Min(Cardinality(agents), CeilDiv(Len(orders), maxPer))
            /\ \A k \in 1..Len(plans) :
                 /\ plans[k].agent \in agents
                 /\ Cardinality({a \in agents : Rating(a) > Rating(plans[k].agent)})
                      = k - 1
                 /\ {plans[k].orders[i] : i \in 1..Len(plans[k].orders)} = Block(k)
                 /\ Len(plans[k].orders) = Cardinality(Block(k))
            /\ req[p].pc = "answered" =>
                 /\ Len(routes) = Len(plans)
                 /\ \A k \in 1..Len(plans) :
                      /\ routes[k].status = "planned"
                      /\ routes[k].agent = plans[k].agent
                      /\ {l.order : l \in {m \in legs : m.route = k}} = Block(k)
                      /\ Cardinality({m \in legs : m.route = k})
                           = Cardinality(Block(k))

\* five orders, two agents, max_orders_per_route 3: the better rated agent
\* has the first three orders, the other one the last two, and two planned
\* routes with five legs between them are stored
C24_Witness ==
  /\ req[1].pc = "answered"
  /\ req[1].orders = <<1, 2, 3, 4, 5>>
  /\ req[1].maxPer = 3
  /\ Len(req[1].plans) = 2
  /\ req[1].plans[1].agent = 2
  /\ req[1].plans[2].agent = 3
  /\ Len(req[1].plans[1].orders) = 3
  /\ Len(req[1].plans[2].orders) = 2
  /\ Len(routes) = 2
  /\ \A r \in 1..2 : routes[r].status = "planned"
  /\ Cardinality(legs) = 5

\* C25: in every plan of a build, with d(i) the metres from the stop before
\* order i (the agent's start coordinate, or the delivery point of order
\* i - 1) to its pickup plus the metres from its pickup to its delivery, the
\* total distance is the sum of the d(i) (km times 1000), the estimated
\* minutes are the sum of ceil(2 * d(i) / 1000), and so lie between
\* ceil(2 * total km) and that number plus n - 1 for the n orders of the plan.
C25_MetricsPerOrder ==
  \A p \in Procs :
    req[p].pc = "built"
      => \A k \in 1..Len(req[p].plans) :
           LET plan == req[p].plans[k]
               n == Len(plan.orders)
               d(i) == LET prev == IF i = 1 THEN req[p].location[plan.agent]
                                   ELSE DeliveryAt(plan.orders[i - 1])
                       IN getDistance(prev, PickupAt(plan.orders[i]))
                          + getDistance(PickupAt(plan.orders[i]),
                                        DeliveryAt(plan.orders[i]))
               metres[i \in 0..n] == IF i = 0 THEN 0 ELSE metres[i - 1] + d(i)
               minutes[i \in 0..n] ==
                 IF i = 0 THEN 0
                 ELSE minutes[i - 1]
                      + ((MinutesPerKm * d(i) + MetresPerKm - 1) \div MetresPerKm)
               onTotal == (MinutesPerKm * metres[n] + MetresPerKm - 1) \div MetresPerKm
           IN /\ plan.totalDistance = metres[n]
              /\ plan.estimatedDuration = minutes[n]
              /\ onTotal <= plan.estimatedDuration
              /\ plan.estimatedDuration <= onTotal + n - 1

\* a plan of several orders whose minutes exceed the rounded-up total
C25_Witness ==
  /\ req[1].pc = "built"
  /\ \E k \in 1..Len(req[1].plans) :
       LET plan == req[1].plans[k]
       IN /\ Len(plan.orders) > 1
          /\ plan.estimatedDuration
               > (MinutesPerKm * plan.totalDistance + MetresPerKm - 1) \div MetresPerKm

\* C26: every agent whose is_available flag is false is the agent of at
\* least one route that is planned or active.
C26_UnavailableHasOpenRoute ==
  \A a \in Agents :
    ~avail[a] => \E r \in 1..Len(routes) :
                   /\ routes[r].agent = a
                   /\ routes[r].status \in {"planned", "active"}

\* C27: when the persist transaction of a planning call commits, every
\* agent it creates a route for has is_available = true at that moment.
C27_AssignedAvailableAtCommit ==
  [][\A p \in Procs :
       (/\ req[p].pc = "opt_persist"
        /\ Len(routes') > Len(routes))
         => \A r \in (Len(routes) + 1)..Len(routes') : avail[routes'[r].agent]]_vars

\* C28: with one planning call at a time, a planning call never selects an
\* order that has a leg in some route, whatever the status of that route, and
\* no order ever has more than one leg over all routes.
C28_RoutedOnce ==
  [][/\ \A p \in Procs :
          (req[p].pc = "idle" /\ req'[p].pc = "opt_agents")
            => \A i \in 1..Len(req'[p].orders) :
                 ~\E l \in legs : l.order = req'[p].orders[i]
     /\ \A o \in Orders : Cardinality({l \in legs' : l.order = o}) <= 1]_vars

\* the only route is cancelled, both orders are confirmed and have their leg
\* in it, and the planning call just made found no order to route
C28_Witness ==
  /\ Len(routes) = 1
  /\ routes[1].status = "cancelled"
  /\ \A o \in Orders : ostatus[o] = "confirmed" /\ \E l \in legs : l.order = o
  /\ last = [op |-> "optimize", outcome |-> "NoOrdersAvailable"]

\* C29: every leg whose actual_delivery_time is set has its
\* actual_pickup_time set.
C29_DeliveredWasPicked ==
  \A l \in legs : l.deliveredAt # NULL => l.pickedAt # NULL

\* C30: a pickup scan succeeds at most once per order: whenever a pickup
\* scan commits, no leg of the order has an actual_pickup_time yet.
C30_PickupOnce ==
  [][\A p \in Procs :
       (/\ req[p].pc = "scan_write"
        /\ req[p].action = "pickup"
        /\ req'[p].pc = "idle")
         => \A l \in legs : l.order = req[p].order => l.pickedAt = NULL]_vars

====
